---- MODULE Spec2Model ----
(***************************************************************************)
(* Text-region detection (src/src/text_detection.py) and the two OCR       *)
(* drivers (src/src/basic_ocr.py, src/app.py).                             *)
(*                                                                         *)
(* Conventions.  Python lists are TLA+ sequences, so list positions are    *)
(* 1-based here (rects[i] of the source is rects[i+1]); grid cells keep    *)
(* the source's 0-based (y, x).  Confidences are in hundredths (0.7 is     *)
(* 70).  Geometry distances are in half pixels (a value g stands for       *)
(* g/2), so that int() really truncates; angles are in quarter turns, so   *)
(* that cos and sin are exact.  Strings are sequences of characters.       *)
(***************************************************************************)
EXTENDS Integers, Sequences, FiniteSets, TLC

VARIABLES
    pc,                 \* position of the single thread of control
    caller,             \* "direct" | "cli" | "app": who called detect_text_regions
    arg,                \* image_path_or_array as passed by the caller
    min_confidence,     \* the min_confidence argument, hundredths
    image,              \* "unset" | "None" | "array"
    readNetCalled,      \* cv2.dnn.readNet has been called in this run
    forwardCalled,      \* net.forward has been called in this run
    scores,             \* scores[0,0,y,x], hundredths
    geometry,           \* geometry[0,c,y,x] as a record per cell
    y, x,               \* decode loop indices
    rects, confidences, \* the candidate lists
    indices,            \* result of NMSBoxes, positions into rects
    text_regions,       \* the normalized boxes
    decoded,            \* history: decoded box of each entry of text_regions
    result,             \* value returned by detect_text_regions
    exception,          \* "none" or the exception leaving the program
    failure,            \* history: what went wrong in this detection, if anything
    i,                  \* driver loop index (regions handled so far)
    all_extracted_text, \* the driver's list of strings
    outcomes,           \* history: what happened to each region
    driverResult        \* value returned by the driver

vars == <<pc, caller, arg, min_confidence, image, readNetCalled, forwardCalled,
          scores, geometry, y, x, rects, confidences, indices, text_regions,
          decoded, result, exception, failure, i, all_extracted_text,
          outcomes, driverResult>>

detectVars == <<image, readNetCalled, forwardCalled, scores, geometry, y, x,
                rects, confidences, indices, text_regions, decoded, result>>
driverVars == <<i, all_extracted_text, outcomes, driverResult>>

\* A Python value that may be None is a sequence of length at most one.
None == << >>
Some(v) == <<v>>
Unset == "unset"

\* ---------------------------------------------------------------- bounds
W == 8                      \* image width
H == 8                      \* image height

\* --------------------------------------------------- program constants
Stride == 4                 \* x * 4.0, y * 4.0
padding == 5
NmsThresholdNum == 3        \* the 0.3 passed to NMSBoxes, as 3/10
NmsThresholdDen == 10
DefaultConfidence == 70     \* min_confidence=0.7 at every call site

numRows == H \div Stride    \* scores.shape[2]
numCols == W \div Stride    \* scores.shape[3]

\* ------------------------------------------------------ input domains
Scores == {60, 70, 80, 90}
\* d0..d3: top, right, bottom, left distances (half pixels); angle: quarter turns
Geoms == { [d0 |-> 0, d1 |-> 12, d2 |-> 12, d3 |-> 0, angle |-> 0],
           [d0 |-> 0, d1 |-> 4,  d2 |-> 12, d3 |-> 0, angle |-> 0],
           [d0 |-> 0, d1 |-> 7,  d2 |-> 26, d3 |-> 2, angle |-> -1] }

Rows(n) == 0 .. (n - 1)
ScoreMaps == [Rows(numRows) -> [Rows(numCols) -> Scores]]
GeometryMaps(r, c) == [Rows(r) -> [Rows(c) -> Geoms]]
\* shapes the geometry output may have: equal to the score map, or short
GeometryShapes == { <<numRows, numCols>>, <<numRows - 1, numCols>>,
                    <<numRows, numCols - 1>> }

\* ------------------------------------------------------------ helpers
Max(a, b) == IF a >= b THEN a ELSE b
Min(a, b) == IF a <= b THEN a ELSE b

\* int() of the value n/2: truncation toward zero
IntOfHalves(n) == IF n >= 0 THEN n \div 2 ELSE -((-n) \div 2)

Cos(q) == IF q = 0 THEN 1 ELSE 0
Sin(q) == q

\* text_detection.py 49-61: the box decoded from cell (cy, cx)
DecodeCell(g, cy, cx) ==
    LET offset_x == 2 * (cx * Stride)
        offset_y == 2 * (cy * Stride)
        cos == Cos(g.angle)
        sin == Sin(g.angle)
        h == g.d0 + g.d2
        w == g.d1 + g.d3
        endX == IntOfHalves(offset_x + (cos * g.d1) + (sin * g.d2))
        endY == IntOfHalves(offset_y - (sin * g.d1) + (cos * g.d2))
        startX == IntOfHalves(2 * endX - w)
        startY == IntOfHalves(2 * endY - h)
    IN  <<startX, startY, endX, endY>>

\* ------------------------------------------------- cv2.dnn.NMSBoxes
\* NMSBoxes takes its boxes as cv::Rect (x, y, width, height).  The tuples
\* handed over at text_detection.py:62 are therefore read this way.
AsRect(t) == [x |-> t[1], y |-> t[2], width |-> t[3], height |-> t[4]]

RectArea(r) == r.width * r.height
RectEmpty(r) == r.width <= 0 \/ r.height <= 0
ZeroRect == [x |-> 0, y |-> 0, width |-> 0, height |-> 0]

\* cv::Rect operator&
RectIntersect(a, b) ==
    IF RectEmpty(a) \/ RectEmpty(b) THEN ZeroRect
    ELSE LET x1 == Max(a.x, b.x)
             y1 == Max(a.y, b.y)
             wd == Min(a.x + a.width, b.x + b.width) - x1
             ht == Min(a.y + a.height, b.y + b.height) - y1
         IN  IF wd <= 0 \/ ht <= 0 THEN ZeroRect
             ELSE [x |-> x1, y |-> y1, width |-> wd, height |-> ht]

\* keep = (1 - jaccardDistance(a, b)) <= nms_threshold, in exact arithmetic.
\* jaccardDistance is 0 (overlap 1) when the two areas sum to nothing.
OverlapAllows(a, b) ==
    LET Aa == RectArea(a)
        Ab == RectArea(b)
        Aab == RectArea(RectIntersect(a, b))
    IN  IF Aa + Ab <= 0 THEN FALSE
        ELSE NmsThresholdDen * Aab <= NmsThresholdNum * (Aa + Ab - Aab)

\* GetMaxScoreIndex: positions whose score is strictly above the threshold,
\* stable-sorted by descending score.
\* k precedes every later position of equal score (std::stable_sort)
RECURSIVE InsertFirst(_, _, _)
InsertFirst(k, sorted, confs) ==
    IF sorted = << >> THEN <<k>>
    ELSE IF confs[Head(sorted)] > confs[k]
         THEN <<Head(sorted)>> \o InsertFirst(k, Tail(sorted), confs)
         ELSE <<k>> \o sorted

RECURSIVE ScoreIndexFrom(_, _, _)
ScoreIndexFrom(k, confs, threshold) ==
    IF k > Len(confs) THEN << >>
    ELSE LET rest == ScoreIndexFrom(k + 1, confs, threshold)
         IN  IF confs[k] > threshold
             THEN InsertFirst(k, rest, confs)
             ELSE rest

GetMaxScoreIndex(confs, threshold) == ScoreIndexFrom(1, confs, threshold)

\* NMSFast_: greedy pass over the sorted positions
RECURSIVE NMSFast(_, _, _)
NMSFast(order, kept, boxes) ==
    IF order = << >> THEN kept
    ELSE LET idx == Head(order)
             keep == \A k \in 1 .. Len(kept) :
                        OverlapAllows(AsRect(boxes[idx]), AsRect(boxes[kept[k]]))
         IN  NMSFast(Tail(order), IF keep THEN Append(kept, idx) ELSE kept, boxes)

\* variant: the result names positions in the sorted score vector instead
\* of positions in the input
NMSBoxesSortedPositions(boxes, confs, score_threshold) ==
    LET order == GetMaxScoreIndex(confs, score_threshold)
        kept == NMSFast(order, << >>, boxes)
    IN  [k \in 1 .. Len(kept) |->
            CHOOSE p \in 1 .. Len(order) : order[p] = kept[k]]

NMSBoxes(boxes, confs, score_threshold) ==
    NMSFast(GetMaxScoreIndex(confs, score_threshold), << >>, boxes)

\* variant: the padded box is not clamped again
NormalizeBoxNoReclamp(b) ==
    << Max(0, b[1]) - padding, Max(0, b[2]) - padding,
       Min(W, b[3]) + padding, Min(H, b[4]) + padding >>

\* ------------------------------------------- text_detection.py 67-77
NormalizeBox(b) ==
    LET startX1 == Max(0, b[1])
        startY1 == Max(0, b[2])
        endX1 == Min(W, b[3])
        endY1 == Min(H, b[4])
    IN  << Max(0, startX1 - padding), Max(0, startY1 - padding),
           Min(W, endX1 + padding), Min(H, endY1 + padding) >>

\* ===================================================================
\* detect_text_regions (src/src/text_detection.py 8-80)
\* ===================================================================
PathArgs == {"missing_path", "unreadable_path", "image_path"}
\* line 17 and line 23: the image cannot be had
ImageFailureReturn == <<None, None, None>>

\* variant: the copy of the image is handed back with the failure
ModelFailureReturnWithCopy == <<None, Some("original_image_copy"), None>>
\* variant: failure reported as an empty region list
ModelFailureReturnEmptyList == <<Some(<< >>), None, None>>

\* line 31: readNet threw
ModelFailureReturn == <<None, None, None>>

\* variant: a cell exactly at the threshold is rejected too
BelowOrAtThreshold(score, threshold) == score <= threshold

\* line 47
BelowThreshold(score, threshold) == score < threshold

ClearLocals ==
    /\ scores' = Unset /\ geometry' = Unset
    /\ y' = 0 /\ x' = 0
    /\ rects' = << >> /\ confidences' = << >> /\ indices' = << >>

\* variant: the network is read before the image is looked at
DetectLoadImageAfterReadNet ==
    /\ pc = "detect"
    /\ readNetCalled' = TRUE
    /\ IF arg \in {"missing_path", "unreadable_path", "None"}
       THEN /\ result' = ImageFailureReturn
            /\ pc' = "returned"
            /\ image' = IF arg = "missing_path" THEN Unset ELSE "None"
            /\ failure' = "InvalidInput"
       ELSE /\ image' = "array"
            /\ pc' = "load_model"
            /\ UNCHANGED <<result, failure>>
    /\ UNCHANGED <<caller, arg, min_confidence, forwardCalled,
                   scores, geometry, y, x, rects, confidences, indices,
                   text_regions, decoded, exception>>
    /\ UNCHANGED driverVars

\* lines 14-25: resolve the argument to an image, or fail
DetectLoadImage ==
    /\ pc = "detect"
    /\ LET loaded == IF arg \in PathArgs
                     THEN (IF arg = "image_path" THEN "array" ELSE "None")
                     ELSE arg
       IN  IF (arg = "missing_path") \/ (loaded = "None")
           THEN /\ result' = ImageFailureReturn
                /\ pc' = "returned"
                /\ image' = IF arg = "missing_path" THEN Unset ELSE "None"
                /\ failure' = "InvalidInput"
           ELSE /\ image' = loaded
                /\ pc' = "load_model"
                /\ UNCHANGED <<result, failure>>
    /\ UNCHANGED <<caller, arg, min_confidence, readNetCalled, forwardCalled,
                   scores, geometry, y, x, rects, confidences, indices,
                   text_regions, decoded, exception>>
    /\ UNCHANGED driverVars

\* lines 26-31: cv2.dnn.readNet either yields a net or throws
DetectLoadModel ==
    /\ pc = "load_model"
    /\ readNetCalled' = TRUE
    /\ \E loadable \in BOOLEAN :
          IF loadable
          THEN pc' = "forward" /\ UNCHANGED <<result, failure>>
          ELSE /\ pc' = "returned"
               /\ result' = ModelFailureReturn
               /\ failure' = "ResourceUnavailable"
    /\ UNCHANGED <<caller, arg, min_confidence, image, forwardCalled,
                   scores, geometry, y, x, rects, confidences, indices,
                   text_regions, decoded, exception>>
    /\ UNCHANGED driverVars

\* lines 32-38: the forward pass hands back the two tensors
DetectForward ==
    /\ pc = "forward"
    /\ forwardCalled' = TRUE
    /\ \E sm \in ScoreMaps, shape \in GeometryShapes :
          \E gm \in GeometryMaps(shape[1], shape[2]) :
             /\ scores' = sm
             /\ geometry' = gm
             /\ failure' = IF shape = <<numRows, numCols>> THEN "none"
                           ELSE "ShapeMismatch"
    /\ rects' = << >>
    /\ confidences' = << >>
    /\ y' = 0 /\ x' = 0
    /\ pc' = "decode"
    /\ UNCHANGED <<caller, arg, min_confidence, image, readNetCalled, indices,
                   text_regions, decoded, result, exception>>
    /\ UNCHANGED driverVars

GeomRows == Cardinality(DOMAIN geometry)
GeomCols == IF GeomRows = 0 THEN 0 ELSE Cardinality(DOMAIN geometry[0])

\* lines 39-61, one cell per step.  Reading row y of the geometry (41-45)
\* happens when the row is entered; reading column x (51-57) only after the
\* confidence test.  Either read is an IndexError when the geometry is short.
DetectDecodeCell ==
    /\ pc = "decode"
    /\ y < numRows
    /\ IF (x = 0 /\ y >= GeomRows)
          \/ (~BelowThreshold(scores[y][x], min_confidence) /\ x >= GeomCols)
       THEN /\ exception' = "IndexError"
            /\ pc' = "raised"
            /\ ClearLocals
       ELSE /\ IF BelowThreshold(scores[y][x], min_confidence)
               THEN UNCHANGED <<rects, confidences>>
               ELSE /\ confidences' = Append(confidences, scores[y][x])
                    /\ rects' = Append(rects, DecodeCell(geometry[y][x], y, x))
            /\ IF x + 1 < numCols
               THEN x' = x + 1 /\ y' = y
               ELSE x' = 0 /\ y' = y + 1
            /\ UNCHANGED <<pc, exception, scores, geometry, indices>>
    /\ UNCHANGED <<caller, arg, min_confidence, image, readNetCalled,
                   forwardCalled, text_regions, decoded, result, failure>>
    /\ UNCHANGED driverVars

\* line 62
DetectSuppress ==
    /\ pc = "decode"
    /\ y >= numRows
    /\ indices' = NMSBoxes(rects, confidences, min_confidence)
    /\ pc' = "normalize"
    /\ UNCHANGED <<caller, arg, min_confidence, image, readNetCalled,
                   forwardCalled, scores, geometry, y, x, rects, confidences,
                   text_regions, decoded, result, exception, failure>>
    /\ UNCHANGED driverVars

\* lines 63-80: clamp and pad every retained box, then return
DetectNormalize ==
    /\ pc = "normalize"
    /\ LET regions == [k \in 1 .. Len(indices) |-> NormalizeBox(rects[indices[k]])]
       IN  /\ text_regions' = regions
           /\ result' = << Some(regions), Some("original_image_copy"),
                          Some("detection_image") >>
    /\ decoded' = [k \in 1 .. Len(indices) |-> rects[indices[k]]]
    /\ pc' = "returned"
    /\ ClearLocals
    /\ UNCHANGED <<caller, arg, min_confidence, image, readNetCalled,
                   forwardCalled, exception, failure>>
    /\ UNCHANGED driverVars

\* ===================================================================
\* strings, crops and the external capabilities
\* ===================================================================
Whitespace == {" ", "\n"}
\* what pytesseract.image_to_string may hand back
Texts == { <<" ">>, <<" ", "a", "\n">>, <<"b">> }
Separator == <<"\n", "\n">>

RECURSIVE LStrip(_)
LStrip(s) == IF s # << >> /\ Head(s) \in Whitespace THEN LStrip(Tail(s)) ELSE s

RECURSIVE RStrip(_)
RStrip(s) ==
    IF s # << >> /\ s[Len(s)] \in Whitespace
    THEN RStrip(SubSeq(s, 1, Len(s) - 1))
    ELSE s

\* str.strip()
Strip(s) == RStrip(LStrip(s))

\* sep.join(parts)
RECURSIVE Join(_, _)
Join(parts, sep) ==
    IF parts = << >> THEN << >>
    ELSE IF Len(parts) = 1 THEN Head(parts)
    ELSE Head(parts) \o sep \o Join(Tail(parts), sep)

\* [t for t in parts if t]
RECURSIVE NonEmpty(_)
NonEmpty(parts) ==
    IF parts = << >> THEN << >>
    ELSE IF Head(parts) # << >> THEN <<Head(parts)>> \o NonEmpty(Tail(parts))
    ELSE NonEmpty(Tail(parts))

\* numpy basic slicing a[start:stop] on an axis of length n
SliceIndex(v, n) == IF v < 0 THEN Max(v + n, 0) ELSE Min(v, n)
SliceLen(start, stop, n) == Max(0, SliceIndex(stop, n) - SliceIndex(start, n))

\* shape of original_image[startY:endY, startX:endX]
RoiShape(region) ==
    << SliceLen(region[2], region[4], H), SliceLen(region[1], region[3], W), 3 >>
RoiSize(region) == RoiShape(region)[1] * RoiShape(region)[2] * RoiShape(region)[3]

\* preprocess_image(roi): a cleaned image, or the None sentinel
PreprocessResults == {"cleaned", "None"}
\* pytesseract.image_to_string: a string, or one of two kinds of exception
OcrFailures == {"TesseractNotFoundError", "Exception"}

Outcome(kind, text) == [kind |-> kind, text |-> text]

\* the regions the driver received from detect_text_regions
regions == result[1]
RegionList == regions[1]

\* one pass of the loop body common to both drivers, as the outcome it has
\* for a region: the crop is empty, preprocessing gave None, the recognizer
\* threw, or the recognizer returned a string
OcrOutcomes ==
    { Outcome(f, << >>) : f \in OcrFailures } \cup { Outcome("text", t) : t \in Texts }

RegionOutcomes(empty) ==
    IF empty THEN { Outcome("empty", << >>) }
    ELSE UNION { IF processed = "None"
                 THEN { Outcome("preprocess_none", << >>) }
                 ELSE OcrOutcomes : processed \in PreprocessResults }

\* ===================================================================
\* the callers of detect_text_regions
\* ===================================================================
Init ==
    /\ pc = "idle"
    /\ caller = Unset /\ arg = Unset
    /\ min_confidence = 0
    /\ image = Unset
    /\ readNetCalled = FALSE /\ forwardCalled = FALSE
    /\ scores = Unset /\ geometry = Unset
    /\ y = 0 /\ x = 0
    /\ rects = << >> /\ confidences = << >> /\ indices = << >>
    /\ text_regions = << >> /\ decoded = << >>
    /\ result = None
    /\ exception = "none"
    /\ failure = "none"
    /\ i = 0
    /\ all_extracted_text = << >>
    /\ outcomes = << >>
    /\ driverResult = None

\* text_detection.py 82-86 (and any other caller that passes a path or an
\* array straight to detect_text_regions)
DirectArgs == PathArgs \cup {"None", "array"}

CallDirect ==
    /\ pc = "idle"
    /\ caller' = "direct"
    /\ \E a \in DirectArgs : arg' = a
    /\ min_confidence' = DefaultConfidence
    /\ pc' = "detect"
    /\ UNCHANGED detectVars
    /\ UNCHANGED <<exception, failure>>
    /\ UNCHANGED driverVars

\* ------------------------------------------------ basic_ocr.py 23-93
\* lines 31-43: the path is checked and loaded before detection is called
CliStart ==
    /\ pc = "idle"
    /\ caller' = "cli"
    /\ \E image_path \in PathArgs :
          IF image_path = "image_path"
          THEN /\ arg' = "array"
               /\ min_confidence' = DefaultConfidence
               /\ pc' = "detect"
               /\ UNCHANGED driverResult
          ELSE /\ arg' = image_path
               /\ driverResult' = None
               /\ pc' = "done"
               /\ UNCHANGED min_confidence
    /\ UNCHANGED detectVars
    /\ UNCHANGED <<exception, failure, i, all_extracted_text, outcomes>>

\* lines 45-58
CliAfterDetect ==
    /\ pc = "returned" /\ caller = "cli"
    /\ IF regions = None
       THEN driverResult' = None /\ pc' = "done"
       ELSE IF RegionList = << >>
       THEN driverResult' = Some(<< >>) /\ pc' = "done"
       ELSE pc' = "cli_loop" /\ UNCHANGED driverResult
    /\ i' = 0
    /\ all_extracted_text' = << >>
    /\ outcomes' = << >>
    /\ UNCHANGED <<caller, arg, min_confidence, exception, failure>>
    /\ UNCHANGED detectVars

\* variant: every recognizer exception ends the call
CliAbortsOnAnyOcrFailure(o) == o.kind \in OcrFailures

\* lines 77-81: the one recognizer failure that ends the whole call
CliAborts(o) == o.kind = "TesseractNotFoundError"

\* lines 63-76, 82-84: what the region adds to all_extracted_text
CliAppended(o) ==
    IF o.kind = "text" /\ Strip(o.text) # << >> THEN <<Strip(o.text)>> ELSE << >>

\* lines 61-84, one region per step
CliRegion ==
    /\ pc = "cli_loop"
    /\ i < Len(RegionList)
    /\ LET region_of_interest == RegionList[i + 1]
       IN  \E o \in RegionOutcomes(RoiSize(region_of_interest) = 0) :
              /\ outcomes' = Append(outcomes, o)
              /\ IF CliAborts(o)
                 THEN /\ driverResult' = None
                      /\ pc' = "done"
                      /\ UNCHANGED <<i, all_extracted_text>>
                 ELSE /\ i' = i + 1
                      /\ all_extracted_text' = all_extracted_text \o CliAppended(o)
                      /\ UNCHANGED <<pc, driverResult>>
    /\ UNCHANGED <<caller, arg, min_confidence, exception, failure>>
    /\ UNCHANGED detectVars

\* lines 86-93
CliFinish ==
    /\ pc = "cli_loop"
    /\ i >= Len(RegionList)
    /\ driverResult' = Some(Join(all_extracted_text, Separator))
    /\ pc' = "done"
    /\ UNCHANGED <<caller, arg, min_confidence, exception, failure, i,
                   all_extracted_text, outcomes>>
    /\ UNCHANGED detectVars

\* ------------------------------------------------------ app.py 55-104
\* the slider of app.py 45-49 supplies min_confidence
SliderValues == {DefaultConfidence, 80}

\* lines 60-68: the array is converted to BGR and handed to detection
AppStart ==
    /\ pc = "idle"
    /\ caller' = "app"
    /\ arg' = "array"
    /\ \E confidence \in SliderValues : min_confidence' = confidence
    /\ pc' = "detect"
    /\ UNCHANGED detectVars
    /\ UNCHANGED <<exception, failure>>
    /\ UNCHANGED driverVars

\* lines 69-82
AppAfterDetect ==
    /\ pc = "returned" /\ caller = "app"
    /\ IF regions = None
       THEN driverResult' = <<None, None, << >> >> /\ pc' = "done"
       ELSE IF RegionList = << >>
       THEN driverResult' = <<Some(<< >>), result[3], << >> >> /\ pc' = "done"
       ELSE pc' = "app_loop" /\ UNCHANGED driverResult
    /\ i' = 0
    /\ all_extracted_text' = << >>
    /\ outcomes' = << >>
    /\ UNCHANGED <<caller, arg, min_confidence, exception, failure>>
    /\ UNCHANGED detectVars

\* variant: the recognized text is recorded as it came
AppRecordedUnstripped(o) == IF o.kind = "text" THEN o.text ELSE << >>

\* lines 88-100: the string recorded for the region
AppRecorded(o) == IF o.kind = "text" THEN Strip(o.text) ELSE << >>

\* lines 83-100, one region per step
AppRegion ==
    /\ pc = "app_loop"
    /\ i < Len(RegionList)
    /\ LET roi == RegionList[i + 1]
           empty == RoiSize(roi) = 0 \/ RoiShape(roi)[1] = 0 \/ RoiShape(roi)[2] = 0
       IN  \E o \in RegionOutcomes(empty) :
              /\ outcomes' = Append(outcomes, o)
              /\ all_extracted_text' = Append(all_extracted_text, AppRecorded(o))
    /\ i' = i + 1
    /\ UNCHANGED <<pc, driverResult, caller, arg, min_confidence, exception,
                   failure>>
    /\ UNCHANGED detectVars

\* lines 101-104
AppFinish ==
    /\ pc = "app_loop"
    /\ i >= Len(RegionList)
    /\ driverResult' = << Some(Join(NonEmpty(all_extracted_text), Separator)),
                          result[3], all_extracted_text >>
    /\ pc' = "done"
    /\ UNCHANGED <<caller, arg, min_confidence, exception, failure, i,
                   all_extracted_text, outcomes>>
    /\ UNCHANGED detectVars

Next ==
    \/ CallDirect
    \/ CliStart
    \/ AppStart
    \/ DetectLoadImage
    \/ DetectLoadModel
    \/ DetectForward
    \/ DetectDecodeCell
    \/ DetectSuppress
    \/ DetectNormalize
    \/ CliAfterDetect
    \/ CliRegion
    \/ CliFinish
    \/ AppAfterDetect
    \/ AppRegion
    \/ AppFinish

Spec == Init /\ [][Next]_vars

\* ===================================================================
\* Properties
\* ===================================================================
StartX(b) == b[1]
StartY(b) == b[2]
EndX(b) == b[3]
EndY(b) == b[4]

\* the decoded box is a proper rectangle that meets the image
MeetsImage(b) ==
    /\ StartX(b) < EndX(b) /\ StartX(b) < W /\ EndX(b) > 0
    /\ StartY(b) < EndY(b) /\ StartY(b) < H /\ EndY(b) > 0

\* the decoded box has no pixel in common with the image
EntirelyOutside(b) ==
    EndX(b) <= 0 \/ EndY(b) <= 0 \/ StartX(b) >= W \/ StartY(b) >= H

\* ---------------------------------------------------------------- C1
\* C1 (as stated): every box of text_regions satisfies
\* 0 <= startX < endX <= W and 0 <= startY < endY <= H.
C1_RegionsProperAndInside ==
    \A k \in 1 .. Len(text_regions) :
        LET r == text_regions[k]
        IN  /\ 0 <= StartX(r) /\ StartX(r) < EndX(r) /\ EndX(r) <= W
            /\ 0 <= StartY(r) /\ StartY(r) < EndY(r) /\ EndY(r) <= H

\* C1 (amended): every box of text_regions satisfies 0 <= startX,
\* endX <= W, 0 <= startY and endY <= H; it also satisfies startX < endX and
\* startY < endY whenever the decoded box it comes from is a proper
\* rectangle that meets the image.
C1_RegionsClamped ==
    \A k \in 1 .. Len(text_regions) :
        LET r == text_regions[k]
        IN  /\ 0 <= StartX(r) /\ EndX(r) <= W
            /\ 0 <= StartY(r) /\ EndY(r) <= H
            /\ MeetsImage(decoded[k]) =>
                  (StartX(r) < EndX(r) /\ StartY(r) < EndY(r))

C1_Witness ==
    /\ pc = "returned"
    /\ \E k \in 1 .. Len(text_regions) :
          MeetsImage(decoded[k]) /\ EndX(decoded[k]) > W
    /\ \E k \in 1 .. Len(text_regions) :
          StartX(text_regions[k]) >= EndX(text_regions[k])

\* ---------------------------------------------------------------- C2
CornerArea(b) == Max(0, EndX(b) - StartX(b)) * Max(0, EndY(b) - StartY(b))
CornerIntersection(a, b) ==
    Max(0, Min(EndX(a), EndX(b)) - Max(StartX(a), StartX(b)))
  * Max(0, Min(EndY(a), EndY(b)) - Max(StartY(a), StartY(b)))
\* IoU(a, b) <= 3/10 for boxes given by their corners
CornerIoUWithinThreshold(a, b) ==
    NmsThresholdDen * CornerIntersection(a, b)
        <= NmsThresholdNum * (CornerArea(a) + CornerArea(b) - CornerIntersection(a, b))

\* C2: after the suppression step, every two distinct retained boxes, read
\* as corner-coordinate rectangles, have IoU <= 0.3.
C2_RetainedPairsIoU ==
    pc = "normalize" =>
        \A p, q \in 1 .. Len(indices) :
            p # q => CornerIoUWithinThreshold(rects[indices[p]], rects[indices[q]])

\* ---------------------------------------------------------------- C3
\* C3: a region whose decoded box lies entirely outside the image has an
\* empty crop, and the driver skips it: neither preprocessing nor the
\* recognizer is called for it.
C3_OutsideBoxesSkipped ==
    (pc \in {"cli_loop", "app_loop", "done"} /\ caller \in {"cli", "app"}) =>
        \A k \in 1 .. Len(outcomes) :
            EntirelyOutside(decoded[k]) =>
                (RoiSize(text_regions[k]) = 0 /\ outcomes[k].kind = "empty")

\* ---------------------------------------------------------------- C4
RegionFailed(o) == o.kind \in ({"preprocess_none"} \cup OcrFailures)
NotFoundIn(os) == \E k \in 1 .. Len(os) : os[k].kind = "TesseractNotFoundError"
Chars(s) == { s[k] : k \in 1 .. Len(s) }
HasVisibleText(o) == o.kind = "text" /\ ~(Chars(o.text) \subseteq Whitespace)

\* the driver went through a non-empty region list
DriverRan ==
    /\ caller \in {"cli", "app"}
    /\ pc \in {"cli_loop", "app_loop", "done"}
    /\ result # None
    /\ regions # None
    /\ RegionList # << >>

\* the text the driver returned, None when it reported failure
DriverText == IF caller = "cli" THEN driverResult ELSE driverResult[1]

\* C4 (as stated): in both drivers a failure on one region never ends the
\* run: every region is gone through and the driver does not return a
\* failure value.
C4_NoRegionFailureAborts ==
    (DriverRan /\ pc = "done") =>
        /\ Len(outcomes) = Len(RegionList)
        /\ DriverText # None

\* C4 (amended): in extract_text_from_image_array every recognizer failure
\* and every None from preprocessing is recorded as "" for that region and
\* the later regions are still processed.  In extract_text_from_image the
\* failed region adds nothing to the output and the later regions are still
\* processed, except that a TesseractNotFoundError makes the driver return
\* None at once.
C4_FailuresAbsorbedExceptNotFound ==
    DriverRan =>
        /\ caller = "app" =>
              /\ Len(outcomes) = i
              /\ Len(all_extracted_text) = i
              /\ \A k \in 1 .. i :
                    RegionFailed(outcomes[k]) => all_extracted_text[k] = << >>
              /\ pc = "done" => (i = Len(RegionList) /\ DriverText # None)
        /\ (caller = "cli" /\ ~NotFoundIn(outcomes)) =>
              /\ Len(outcomes) = i
              /\ Len(all_extracted_text) = Len(SelectSeq(outcomes, HasVisibleText))
              /\ pc = "done" => (i = Len(RegionList) /\ DriverText # None)
        /\ (caller = "cli" /\ NotFoundIn(outcomes)) =>
              /\ outcomes[Len(outcomes)].kind = "TesseractNotFoundError"
              /\ ~NotFoundIn(SubSeq(outcomes, 1, Len(outcomes) - 1))
              /\ pc = "done"
              /\ DriverText = None

C4_Witness ==
    /\ DriverRan /\ pc = "done" /\ caller = "cli"
    /\ Len(outcomes) >= 3
    /\ outcomes[1].kind = "preprocess_none"
    /\ outcomes[2].kind = "Exception"
    /\ outcomes[3].kind = "text"
    /\ DriverText # None

\* ---------------------------------------------------------------- C5
DetectFailureKinds == {"InvalidInput", "ResourceUnavailable", "ShapeMismatch"}

\* the value detect_text_regions returns for a failure of the given kind,
\* for the kinds it returns a value for
ReturnedFor(kind) ==
    IF kind = "InvalidInput" THEN {ImageFailureReturn}
    ELSE IF kind = "ResourceUnavailable" THEN {ModelFailureReturn}
    ELSE { }

\* detect_text_regions is over: it returned or it raised
DetectOver == pc \in {"returned", "raised"}

\* C5 (as stated): each of the three failures reaches the caller as a
\* returned failure value, and the value returned for one kind is never the
\* value returned for another kind.
C5_DistinctErrorValues ==
    (DetectOver /\ failure \in DetectFailureKinds) =>
        /\ pc = "returned"
        /\ regions = None
        /\ \A other \in DetectFailureKinds \ {failure} :
              result \notin ReturnedFor(other)

\* C5 (amended): an unloadable model and a missing, unreadable or absent
\* image both reach the caller as (None, None, None), a value no successful
\* call returns; a shape mismatch is never returned as a failure value: it
\* either leaves the call as an IndexError or goes unnoticed.
C5_FailureValues ==
    /\ (pc = "returned" /\ failure \in {"InvalidInput", "ResourceUnavailable"}) =>
          result = <<None, None, None>>
    /\ (pc = "returned" /\ failure \in {"none", "ShapeMismatch"}) =>
          (regions # None /\ regions = Some(text_regions))
    /\ pc = "raised" => (failure = "ShapeMismatch" /\ exception = "IndexError")

C5_Witness ==
    /\ pc = "returned"
    /\ caller = "direct"
    /\ failure = "ResourceUnavailable"
    /\ readNetCalled
    /\ result = ImageFailureReturn

\* ---------------------------------------------------------------- C6
\* C6: a model that cannot be loaded makes detect_text_regions return
\* regions = None; zero detections make it return an empty list with both
\* images; each driver turns the first into None and the second into the
\* empty text.
C6_ModelFailureIsNotZeroDetections ==
    /\ (pc = "returned" /\ failure = "ResourceUnavailable") => regions = None
    /\ (pc = "returned" /\ failure = "none" /\ text_regions = << >>) =>
          /\ regions = Some(<< >>)
          /\ result[2] # None
          /\ result[3] # None
    /\ (pc = "done" /\ caller \in {"cli", "app"} /\ result # None) =>
          /\ failure = "ResourceUnavailable" => DriverText = None
          /\ (failure = "none" /\ text_regions = << >>) => DriverText = Some(<< >>)

C6_Witness ==
    /\ pc = "done"
    /\ caller = "app"
    /\ failure = "ResourceUnavailable"
    /\ driverResult = <<None, None, << >> >>

\* ---------------------------------------------------------------- C7
\* C7: when the image is missing, unreadable or absent, neither readNet nor
\* net.forward is ever called in that run.
C7_NoInferenceOnBadImage ==
    failure = "InvalidInput" => (~readNetCalled /\ ~forwardCalled)

C7_Witness ==
    /\ pc = "returned"
    /\ failure = "InvalidInput"
    /\ arg = "unreadable_path"
    /\ result = ImageFailureReturn

\* ---------------------------------------------------------------- C8
\* r is s without its leading and trailing whitespace
IsStripOf(r, s) ==
    \E a \in 0 .. Len(s) : \E b \in a .. Len(s) :
        /\ r = SubSeq(s, a + 1, b)
        /\ \A k \in 1 .. a : s[k] \in Whitespace
        /\ \A k \in (b + 1) .. Len(s) : s[k] \in Whitespace
        /\ r # << >> => (r[1] \notin Whitespace /\ r[Len(r)] \notin Whitespace)

IsNonEmptyString(s) == s # << >>

\* the strings of parts, in order, with a blank line between neighbours
RECURSIVE BlankLineSeparated(_)
BlankLineSeparated(parts) ==
    IF parts = << >> THEN << >>
    ELSE LET n == Len(parts)
         IN  IF n = 1 THEN parts[1]
             ELSE BlankLineSeparated(SubSeq(parts, 1, n - 1))
                      \o <<"\n", "\n">> \o parts[n]

\* C8: extract_text_from_image_array returns one string per region, the
\* stripped recognized text or "" for an empty, unpreprocessable or
\* unrecognizable region, and the concatenation is the non-empty strings in
\* region order with a blank line between them.
C8_PerRegionListAndConcatenation ==
    (DriverRan /\ caller = "app" /\ pc = "done") =>
        LET per_region == driverResult[3]
        IN  /\ Len(per_region) = Len(RegionList)
            /\ Len(outcomes) = Len(RegionList)
            /\ \A k \in 1 .. Len(RegionList) :
                  /\ outcomes[k].kind = "empty" <=> RoiSize(RegionList[k]) = 0
                  /\ outcomes[k].kind = "text" =>
                        IsStripOf(per_region[k], outcomes[k].text)
                  /\ outcomes[k].kind # "text" => per_region[k] = << >>
            /\ driverResult[1] =
                  Some(BlankLineSeparated(SelectSeq(per_region, IsNonEmptyString)))

C8_Witness ==
    /\ DriverRan /\ caller = "app" /\ pc = "done"
    /\ Len(outcomes) >= 3
    /\ outcomes[1] = Outcome("text", <<" ", "a", "\n">>)
    /\ outcomes[2].kind = "Exception"
    /\ outcomes[3] = Outcome("text", <<"b">>)
    /\ driverResult[1] = Some(<<"a", "\n", "\n", "b">>)

\* ---------------------------------------------------------------- C9
Cells == Rows(numRows) \X Rows(numCols)
\* the cells the decode loop has gone through when it stands at (cy, cx)
CellsBefore(cy, cx) ==
    { c \in Cells : c[1] < cy \/ (c[1] = cy /\ c[2] < cx) }
Confident(c) == scores[c[1]][c[2]] >= min_confidence
\* position in the candidate lists of the entry for the confident cell c
Rank(c) ==
    Cardinality({ d \in CellsBefore(c[1], c[2]) \cup {c} : Confident(d) })

\* C9: the candidate lists hold exactly one entry per cell gone through
\* whose confidence is at least min_confidence, none for the others, rects
\* and confidences aligned.
C9_OneCandidatePerConfidentCell ==
    pc = "decode" =>
        LET done == CellsBefore(y, x)
        IN  /\ Len(rects) = Len(confidences)
            /\ Len(rects) = Cardinality({ c \in done : Confident(c) })
            /\ \A c \in done :
                  Confident(c) =>
                      /\ confidences[Rank(c)] = scores[c[1]][c[2]]
                      /\ rects[Rank(c)] = DecodeCell(geometry[c[1]][c[2]], c[1], c[2])

C9_Witness ==
    /\ pc = "decode"
    /\ y >= numRows
    /\ Len(rects) = 2
    /\ \E c \in Cells : scores[c[1]][c[2]] = min_confidence
    /\ \E c \in Cells : scores[c[1]][c[2]] < min_confidence

\* --------------------------------------------------------------- C10
\* C10: NMSBoxes run again on the boxes and confidences it retained, with
\* the same thresholds, returns every one of them.
C10_SuppressionIdempotent ==
    pc = "normalize" =>
        LET n == Len(indices)
            kept_rects == [k \in 1 .. n |-> rects[indices[k]]]
            kept_confidences == [k \in 1 .. n |-> confidences[indices[k]]]
            again == NMSBoxes(kept_rects, kept_confidences, min_confidence)
        IN  /\ Len(again) = n
            /\ { again[k] : k \in 1 .. Len(again) } = 1 .. n

C10_Witness ==
    /\ pc = "normalize"
    /\ Len(indices) >= 2
    /\ Len(indices) < Len(rects)
    /\ \E k \in 1 .. Len(confidences) : confidences[k] = min_confidence

====
